---- MODULE Spec2Model ----
(***************************************************************************)
(* ImageDataGenerator (data_generator.py): the constructor reads a         *)
(* manifest of "<path> <label>" lines, optionally permutes the two lists   *)
(* jointly, and builds a dataset pipeline from_tensor_slices -> map        *)
(* (8 parallel calls) -> shuffle(buffer_size) -> batch(batch_size).        *)
(*                                                                         *)
(* Text is modelled as a sequence of one-character strings, so that        *)
(* str.split, int() and os.path.join are computed character by character.  *)
(* Pixel values are integers in thousandths (123.68 is 123680).            *)
(***************************************************************************)
EXTENDS Integers, Sequences, FiniteSets, TLC

VARIABLES txt_file, args, pc, exc, img_paths, labels, data_size, shuf, data,
          calls, buffer, ready, batches

vars == <<txt_file, args, pc, exc, img_paths, labels, data_size, shuf, data,
          calls, buffer, ready, batches>>

(***************************************************************************)
(* Bounds of the model.                                                    *)
(***************************************************************************)
\* longest manifest drawn for the constructor specification
MaxLoadLines == 2
\* longest manifest drawn for the whole-program specification
MaxLines == 3
\* longest manifest drawn with shuffle set or in training mode, where the
\* orders of the shuffle and the outcomes of the draws multiply
MaxBusyLines == 2

(***************************************************************************)
(* Text helpers.                                                           *)
(***************************************************************************)
Digits == <<"0", "1", "2", "3", "4", "5", "6", "7", "8", "9">>

IsDigit(c) == \E k \in 1..10 : Digits[k] = c

DigitVal(c) == (CHOOSE k \in 1..10 : Digits[k] = c) - 1

\* the characters str.strip() and int() treat as white space
IsSpace(c) == c \in {" ", "\n", "\t", "\r"}

RECURSIVE SplitFrom(_, _, _)
\* scan s left to right; cur is the token being built
SplitFrom(s, sep, cur) ==
    IF s = <<>> THEN <<cur>>
    ELSE IF Head(s) = sep THEN <<cur>> \o SplitFrom(Tail(s), sep, <<>>)
    ELSE SplitFrom(Tail(s), sep, Append(cur, Head(s)))

\* line.split(' '): every single space separates; empty tokens are kept
Split(s, sep) == SplitFrom(s, sep, <<>>)

RECURSIVE LStrip(_)
LStrip(s) == IF s # <<>> /\ IsSpace(Head(s)) THEN LStrip(Tail(s)) ELSE s

RECURSIVE RStrip(_)
RStrip(s) ==
    IF s # <<>> /\ IsSpace(s[Len(s)]) THEN RStrip(SubSeq(s, 1, Len(s) - 1)) ELSE s

Strip(s) == RStrip(LStrip(s))

RECURSIVE DigitsValue(_, _)
\* base-10 value of a sequence of digit characters, most significant first
DigitsValue(s, acc) ==
    IF s = <<>> THEN acc ELSE DigitsValue(Tail(s), 10 * acc + DigitVal(Head(s)))

\* int() that loses the sign of its argument
PyIntNoSign(tok) ==
    LET t == Strip(tok)
        signed == t # <<>> /\ Head(t) \in {"+", "-"}
        body == IF signed THEN Tail(t) ELSE t
        valid == body # <<>> /\ \A k \in 1..Len(body) : IsDigit(body[k])
    IN [ok |-> valid, val |-> IF valid THEN DigitsValue(body, 0) ELSE 0]

\* int(tok): surrounding white space is ignored, one optional sign, then at
\* least one digit and nothing else; anything else raises ValueError
PyInt(tok) ==
    LET t == Strip(tok)
        signed == t # <<>> /\ Head(t) \in {"+", "-"}
        body == IF signed THEN Tail(t) ELSE t
        valid == body # <<>> /\ \A k \in 1..Len(body) : IsDigit(body[k])
        mag == IF valid THEN DigitsValue(body, 0) ELSE 0
    IN [ok |-> valid,
        val |-> IF signed /\ Head(t) = "-" THEN 0 - mag ELSE mag]

\* os.path.join(a, p) of posixpath: an absolute p discards a
OsPathJoin(a, p) ==
    IF p # <<>> /\ Head(p) = "/" THEN p
    ELSE IF a = <<>> \/ a[Len(a)] = "/" THEN a \o p
    ELSE a \o <<"/">> \o p

(***************************************************************************)
(* Exceptions.                                                             *)
(***************************************************************************)
NoError == "none"
IndexError == "IndexError: list index out of range"
IntValueError == "ValueError: invalid literal for int()"
InvalidMode == "ValueError: Invalid mode"

(***************************************************************************)
(* _read_txt_file: the loop over the lines.  The path of a line is         *)
(* appended before its label is parsed, so a raise leaves the path behind. *)
(***************************************************************************)
LabelToken(items) == items[2]

RECURSIVE ReadLines(_, _, _, _)
ReadLines(lines, root, paths, labs) ==
    IF lines = <<>> THEN [img_paths |-> paths, labels |-> labs, exc |-> NoError]
    ELSE LET items == Split(Head(lines), " ")
             paths1 == Append(paths, OsPathJoin(root, items[1]))
         IN IF Len(items) < 2
            THEN [img_paths |-> paths1, labels |-> labs, exc |-> IndexError]
            ELSE LET n == PyInt(LabelToken(items))
                 IN IF ~n.ok
                    THEN [img_paths |-> paths1, labels |-> labs, exc |-> IntValueError]
                    ELSE ReadLines(Tail(lines), root, paths1, Append(labs, n.val))

ReadTxtFile(lines, root) == ReadLines(lines, root, <<>>, <<>>)

(***************************************************************************)
(* _shuffle_lists: np.random.permutation(data_size) is any bijection on    *)
(* 0 .. data_size-1; both lists are rebuilt in the order of the one        *)
(* permutation.                                                            *)
(***************************************************************************)
NpRandomPermutation(n) ==
    {p \in [1..n -> 0..(n - 1)] : \A i, j \in 1..n : p[i] = p[j] => i = j}

ShufflePaths(path, permutation) ==
    [k \in 1..Len(permutation) |-> path[permutation[k] + 1]]

\* a shuffle that reorders the paths and leaves the labels where they were
ShuffleLabelsInPlace(labs, permutation) == labs

ShuffleLabels(labs, permutation) ==
    [k \in 1..Len(permutation) |-> labs[permutation[k] + 1]]

NoShuffle == [path |-> <<>>, labels |-> <<>>, permutation |-> <<>>, ran |-> FALSE]

NoData == [built |-> FALSE, map |-> "none", shuffle |-> FALSE,
           buffer_size |-> 0, batch_size |-> 0]

(***************************************************************************)
(* __init__, lines 34-42: store the arguments, read the file, data_size.   *)
(***************************************************************************)
InitRead ==
    /\ pc = "read"
    /\ LET r == ReadTxtFile(txt_file, args.dataroot)
       IN /\ img_paths' = r.img_paths
          /\ labels' = r.labels
          /\ exc' = r.exc
          /\ IF r.exc # NoError
             THEN pc' = "raised" /\ UNCHANGED data_size
             ELSE /\ data_size' = Len(r.labels)
                  /\ pc' = IF args.shuffle THEN "shuffle" ELSE "dataset"
    /\ UNCHANGED <<txt_file, args, shuf, data, calls, buffer, ready, batches>>

(***************************************************************************)
(* __init__, lines 45-46: the initial joint shuffle.                       *)
(***************************************************************************)
InitShuffle ==
    /\ pc = "shuffle"
    /\ \E permutation \in NpRandomPermutation(data_size) :
          /\ shuf' = [path |-> img_paths, labels |-> labels,
                      permutation |-> permutation, ran |-> TRUE]
          /\ img_paths' = ShufflePaths(img_paths, permutation)
          /\ labels' = ShuffleLabels(labels, permutation)
    /\ pc' = "dataset"
    /\ UNCHANGED <<txt_file, args, exc, data_size, data, calls, buffer, ready, batches>>

\* the modes the docstring names
ValidModesDocstring == {"training", "validation"}

ValidModes == {"training", "inference"}

MapFunction(mode) == IF mode = "training" THEN "train" ELSE "inference"

(***************************************************************************)
(* __init__, lines 49-72: the pipeline is built, or the mode is rejected.  *)
(***************************************************************************)
InitDataset ==
    /\ pc = "dataset"
    /\ IF args.mode \in ValidModes
       THEN /\ data' = [built |-> TRUE, map |-> MapFunction(args.mode),
                        shuffle |-> args.shuffle,
                        buffer_size |-> args.buffer_size,
                        batch_size |-> args.batch_size]
            /\ pc' = "built"
            /\ UNCHANGED exc
       ELSE /\ exc' = InvalidMode
            /\ pc' = "raised"
            /\ UNCHANGED data
    /\ UNCHANGED <<txt_file, args, img_paths, labels, data_size, shuf,
                   calls, buffer, ready, batches>>

(***************************************************************************)
(* Images.  An image is its shape <<height, width, channels>> and its      *)
(* pixels px, a function from <<row, column>> to the tuple of channel      *)
(* values.  A decoded file carries every pixel.  A resized image carries   *)
(* the pixels at the probed rows and columns (first, middle, last): every  *)
(* later operation is pointwise or mirrors the columns, and the probes are *)
(* closed under mirroring, so the probed pixels are computed exactly as    *)
(* the program computes them.                                              *)
(***************************************************************************)
\* tf.image.resize_images(img_decoded, [227, 227])
ResizeHeight == 227
ResizeWidth == 227

\* IMAGENET_MEAN in thousandths, channel order R, G, B
IMAGENET_MEAN == <<123680, 116779, 103939>>

Probes(n) == IF n <= 3 THEN 1..n ELSE {1, (n + 1) \div 2, n}

Grid(h, w) == Probes(h) \X Probes(w)

\* the files under the data root: PNG rasters of 8-bit samples, grey
\* (1 channel) or RGB (3 channels)
Files ==
    [x \in {<<"d", "/", "a">>, <<"d", "/", "b">>, <<"d", "/", "c">>} |->
        CASE x = <<"d", "/", "a">> ->
               [shape |-> <<1, 2, 3>>,
                px |-> (<<1, 1>> :> <<255, 0, 10>>) @@ (<<1, 2>> :> <<0, 40, 255>>)]
          [] x = <<"d", "/", "b">> ->
               [shape |-> <<2, 1, 1>>,
                px |-> (<<1, 1>> :> <<124>>) @@ (<<2, 1>> :> <<124>>)]
          [] x = <<"d", "/", "c">> ->
               [shape |-> <<2, 2, 3>>,
                px |-> (<<1, 1>> :> <<1, 2, 3>>) @@ (<<1, 2>> :> <<200, 100, 0>>)
                       @@ (<<2, 1>> :> <<9, 90, 190>>) @@ (<<2, 2>> :> <<255, 255, 255>>)]]

\* tf.read_file(filename)
ReadFile(filename) == Files[filename]

\* tf.image.decode_png(img_string, channels=3): a grey sample is repeated on
\* the three channels
DecodePng(png, channels) ==
    [shape |-> <<png.shape[1], png.shape[2], channels>>,
     px |-> [rc \in DOMAIN png.px |->
               IF png.shape[3] = channels THEN png.px[rc]
               ELSE [k \in 1..channels |-> png.px[rc][1]]]]

Min(a, b) == IF a < b THEN a ELSE b

\* a + (b - a) * num / den in thousandths
Lerp(a, b, num, den) == a + ((b - a) * num) \div den

\* bilinear resize without corner alignment: output index x (from 0) reads
\* the input at x * in / out, between floor and floor + 1 (clamped)
ResizeImages(img, size) ==
    LET h == img.shape[1]
        w == img.shape[2]
        oh == size[1]
        ow == size[2]
        At(r, c, k) == 1000 * img.px[<<r + 1, c + 1>>][k]
    IN [shape |-> <<oh, ow, img.shape[3]>>,
        px |-> [rc \in Grid(oh, ow) |->
                  LET y == (rc[1] - 1) * h
                      x == (rc[2] - 1) * w
                      y0 == y \div oh
                      x0 == x \div ow
                      y1 == Min(y0 + 1, h - 1)
                      x1 == Min(x0 + 1, w - 1)
                  IN [k \in 1..img.shape[3] |->
                        Lerp(Lerp(At(y0, x0, k), At(y0, x1, k), x % ow, ow),
                             Lerp(At(y1, x0, k), At(y1, x1, k), x % ow, ow),
                             y % oh, oh)]]]

\* a subtraction that takes the mean in B, G, R order
SubtractReversedMean(img, mean) ==
    [img EXCEPT !.px = [rc \in DOMAIN img.px |->
                          [k \in 1..img.shape[3] |->
                              img.px[rc][k] - mean[img.shape[3] + 1 - k]]]]

\* tf.subtract(img_resized, IMAGENET_MEAN): the mean is broadcast over the
\* rows and columns, channel k losing mean[k]
Subtract(img, mean) ==
    [img EXCEPT !.px = [rc \in DOMAIN img.px |->
                          [k \in 1..img.shape[3] |-> img.px[rc][k] - mean[k]]]]

\* img_centered[:, :, ::-1]
ReverseChannels(img) ==
    [img EXCEPT !.px = [rc \in DOMAIN img.px |->
                          [k \in 1..img.shape[3] |-> img.px[rc][img.shape[3] + 1 - k]]]]

\* tf.image.flip_left_right, the mirror of random_flip_left_right
FlipLeftRight(img) ==
    [img EXCEPT !.px = [rc \in DOMAIN img.px |->
                          img.px[<<rc[1], img.shape[2] + 1 - rc[2]>>]]]

\* tf.one_hot(label, depth): 1.0 at index label, and all zeros when label is
\* outside 0 .. depth-1
OneHot(label, depth) == [j \in 1..depth |-> IF j = label + 1 THEN 1 ELSE 0]

(***************************************************************************)
(* Random draws: tf.random_uniform([], 0, 1) in hundredths.                *)
(***************************************************************************)
Uniform == {0, 25, 50}

\* an outer gate that also opens at 0.5
AugmentChanceInclusive(u) == u <= 50

\* line 112: tf.random_uniform([], 0, 1) < 0.5
AugmentChance(u) == u < 50

\* line 139: tf.random_uniform([], 0, 1) < 0.25
TransformChance(u) == u < 25

\* random_flip_left_right: uniform draw < 0.5 mirrors
MirrorChance(u) == u < 50

\* flip (lines 147-157) with its draw u
Flip(x, u) == IF MirrorChance(u) THEN FlipLeftRight(x) ELSE x

\* the draws one call of line 112 can make: the gate of augment is drawn only
\* when the outer condition holds, the draw of flip only when the gate holds
DrawSeqs ==
    {<<u>> : u \in {v \in Uniform : ~AugmentChance(v)}}
    \cup {<<u, v>> : u \in {a \in Uniform : AugmentChance(a)},
                     v \in {b \in Uniform : ~TransformChance(b)}}
    \cup {<<u, v, z>> : u \in {a \in Uniform : AugmentChance(a)},
                        v \in {b \in Uniform : TransformChance(b)},
                        z \in Uniform}

\* augment (lines 133-145): the one enabled transform, flip, behind its gate
Augment(x, draws) == IF TransformChance(draws[2]) THEN Flip(x, draws[3]) ELSE x

\* line 112: tf.cond(uniform < 0.5, augment(img_bgr), img_bgr)
CondAugment(img_bgr, draws) ==
    IF AugmentChance(draws[1]) THEN Augment(img_bgr, draws) ELSE img_bgr

(***************************************************************************)
(* The map stage: one invocation of the parsing function per element,      *)
(* at most num_parallel_calls of them running, results handed on in        *)
(* element order.  An invocation keeps its own locals.                     *)
(***************************************************************************)
num_parallel_calls == 8

NoImage == [shape |-> <<0, 0, 0>>, px |-> <<>>]

NewCall(filename, label) ==
    [pc |-> "parse", filename |-> filename, label |-> label, one_hot |-> <<>>,
     img_decoded |-> NoImage, img_resized |-> NoImage, img_centered |-> NoImage,
     img_bgr |-> NoImage, draws |-> <<>>, ret_img |-> NoImage]

Running == {i \in 1..Len(calls) : calls[i].pc \in {"parse", "cond", "ret"}}

\* Dataset.from_tensor_slices feeds element Len(calls) + 1 to a free call
MapStart ==
    /\ pc = "built"
    /\ Len(calls) < data_size
    /\ Cardinality(Running) < num_parallel_calls
    /\ calls' = Append(calls, NewCall(img_paths[Len(calls) + 1], labels[Len(calls) + 1]))
    /\ UNCHANGED <<txt_file, args, pc, exc, img_paths, labels, data_size, shuf,
                   data, buffer, ready, batches>>

\* lines 99-109 (119-129): one_hot, read, decode, resize, centre, RGB -> BGR
Preprocess(c) ==
    LET one_hot == OneHot(c.label, args.num_classes)
        img_decoded == DecodePng(ReadFile(c.filename), 3)
        img_resized == ResizeImages(img_decoded, <<ResizeHeight, ResizeWidth>>)
        img_centered == Subtract(img_resized, IMAGENET_MEAN)
        img_bgr == ReverseChannels(img_centered)
    IN [c EXCEPT !.one_hot = one_hot, !.img_decoded = img_decoded,
                 !.img_resized = img_resized, !.img_centered = img_centered,
                 !.img_bgr = img_bgr]

\* a return that mirrors the one-hot vector along with a mirrored image
ParseReturnRelabel(c, img) ==
    [c EXCEPT !.pc = "ret", !.ret_img = img,
              !.one_hot = IF img = c.img_bgr THEN c.one_hot
                          ELSE [j \in 1..Len(c.one_hot) |-> c.one_hot[Len(c.one_hot) + 1 - j]]]

\* return img_bgr, one_hot (lines 114, 131): the call ends with its image;
\* the one-hot vector is the one computed on entry
ParseReturn(c, img) == [c EXCEPT !.pc = "ret", !.ret_img = img]

\* one img_bgr for all the calls, holding what the newest call left in it
CondInputShared(i) == calls[Len(calls)].img_bgr

\* the image the conditional of call i starts from: its own img_bgr
CondInput(i) == calls[i].img_bgr

\* _parse_function_inference, and _parse_function_train down to line 109
ParseStep(i) ==
    /\ i \in 1..Len(calls)
    /\ calls[i].pc = "parse"
    /\ LET c == Preprocess(calls[i])
       IN calls' = [calls EXCEPT ![i] =
                      IF data.map = "inference"
                      THEN ParseReturn(c, c.img_bgr)
                      ELSE [c EXCEPT !.pc = "cond"]]
    /\ UNCHANGED <<txt_file, args, pc, exc, img_paths, labels, data_size, shuf,
                   data, buffer, ready, batches>>

\* _parse_function_train, lines 112-114: the draws are made and consumed here
CondStep(i) ==
    /\ i \in 1..Len(calls)
    /\ calls[i].pc = "cond"
    /\ calls[i].draws = <<>>
    /\ \E img \in {CondAugment(CondInput(i), draws) : draws \in DrawSeqs} :
          calls' = [calls EXCEPT ![i] = ParseReturn(calls[i], img)]
    /\ UNCHANGED <<txt_file, args, pc, exc, img_paths, labels, data_size, shuf,
                   data, buffer, ready, batches>>

\* the same lines for a call whose draws are given: calls[i].draws lists the
\* values its random_uniform ops return, in the order they run
CondStepDrawn(i) ==
    /\ i \in 1..Len(calls)
    /\ calls[i].pc = "cond"
    /\ calls[i].draws \in DrawSeqs
    /\ calls' = [calls EXCEPT ![i] =
                   ParseReturn(calls[i], CondAugment(CondInput(i), calls[i].draws))]
    /\ UNCHANGED <<txt_file, args, pc, exc, img_paths, labels, data_size, shuf,
                   data, buffer, ready, batches>>

\* a call that has returned: its locals are gone
Returned == [NewCall(<<>>, 0) EXCEPT !.pc = "delivered"]

Delivered == {i \in 1..Len(calls) : calls[i].pc = "delivered"}

Sample(c) == [img |-> c.ret_img, one_hot |-> c.one_hot]

\* the map hands its results on in element order: to the shuffle buffer
\* (line 67) when shuffle is set, else straight to the batcher
MapDeliver(i) ==
    /\ i \in 1..Len(calls)
    /\ calls[i].pc = "ret"
    /\ \A j \in 1..(i - 1) : calls[j].pc = "delivered"
    /\ IF data.shuffle
       THEN /\ Len(buffer) < data.buffer_size
            /\ buffer' = Append(buffer, Sample(calls[i]))
            /\ UNCHANGED ready
       ELSE /\ ready' = Append(ready, Sample(calls[i]))
            /\ UNCHANGED buffer
    /\ calls' = [calls EXCEPT ![i] = Returned]
    /\ UNCHANGED <<txt_file, args, pc, exc, img_paths, labels, data_size, shuf,
                   data, batches>>

MapExhausted == pc = "built" /\ Cardinality(Delivered) = data_size

RemoveAt(s, k) == SubSeq(s, 1, k - 1) \o SubSeq(s, k + 1, Len(s))

\* data.shuffle(buffer_size): once the buffer is full, or its input is
\* exhausted, a uniformly chosen slot is emitted
ShuffleEmit ==
    /\ pc = "built"
    /\ data.shuffle
    /\ buffer # <<>>
    /\ Len(buffer) = data.buffer_size \/ MapExhausted
    /\ \E k \in 1..Len(buffer) :
          /\ ready' = Append(ready, buffer[k])
          /\ buffer' = RemoveAt(buffer, k)
    /\ UNCHANGED <<txt_file, args, pc, exc, img_paths, labels, data_size, shuf,
                   data, calls, batches>>

InputExhausted == MapExhausted /\ buffer = <<>>

\* a batcher that emits whatever is ready, up to batch_size
BatchTakeEager == IF Len(ready) >= data.batch_size THEN data.batch_size ELSE Len(ready)

\* the size of the next batch: batch_size, or what is left at the end
BatchTake == IF Len(ready) >= data.batch_size THEN data.batch_size
             ELSE IF InputExhausted THEN Len(ready) ELSE 0

\* data.batch(batch_size)
BatchEmit ==
    /\ pc = "built"
    /\ BatchTake > 0
    /\ batches' = Append(batches, SubSeq(ready, 1, BatchTake))
    /\ ready' = SubSeq(ready, BatchTake + 1, Len(ready))
    /\ UNCHANGED <<txt_file, args, pc, exc, img_paths, labels, data_size, shuf,
                   data, calls, buffer>>

(***************************************************************************)
(* Inputs of the constructor specification: manifests of well-formed and   *)
(* malformed lines.                                                        *)
(***************************************************************************)
RECURSIVE DecimalDigits(_)
\* the decimal digits of n >= 0, most significant first
DecimalDigits(n) ==
    IF n < 10 THEN <<Digits[n + 1]>>
    ELSE Append(DecimalDigits(n \div 10), Digits[(n % 10) + 1])

\* the text of an integer label as it is written on a manifest line
Decimal(n) == IF n < 0 THEN <<"-">> \o DecimalDigits(0 - n) ELSE DecimalDigits(n)

RelPaths == {<<"a">>, <<"/", "c">>}

WrittenLabels == {0, 12, -3}

\* "<path> <label>\n"
ManifestLine(p, l) == p \o <<" ">> \o Decimal(l) \o <<"\n">>

WellFormedLines == {ManifestLine(p, l) : p \in RelPaths, l \in WrittenLabels}

MalformedLines ==
    { <<"\n">>,
      <<"a", "\n">>,
      <<"a", " ", "1", "x", "\n">>,
      <<"a", " ", " ", "1", "\n">>,
      <<"a", " ", "1", " ", "b", "\n">>,
      <<"a", " ", "b", " ", "1", "\n">> }

LoadLines == WellFormedLines \cup MalformedLines

SeqsUpTo(S, n) == UNION {[1..k -> S] : k \in 0..n}

\* f.readlines(): every line keeps its "\n", only the last may lack it
\* (and is then not empty)
WithoutFinalNewline(m) ==
    [m EXCEPT ![Len(m)] = SubSeq(@, 1, Len(@) - 1)]

Manifests(lineSet, n) ==
    LET ms == SeqsUpTo(lineSet, n)
    IN ms \cup {WithoutFinalNewline(m) : m \in {x \in ms : x # <<>> /\ Len(x[Len(x)]) > 1}}

Modes == {"training", "inference", "validation"}

DataRoot == <<"d">>

DataRoots == {<<>>, DataRoot, <<"d", "/">>}

InitArgs(roots, modes, batchSizes, numClasses, shuffles) ==
    [dataroot : roots, mode : modes, batch_size : batchSizes,
     num_classes : numClasses, shuffle : shuffles, buffer_size : {2}]

InitState ==
    /\ pc = "read"
    /\ exc = NoError
    /\ img_paths = <<>>
    /\ labels = <<>>
    /\ data_size = -1
    /\ shuf = NoShuffle
    /\ data = NoData
    /\ calls = <<>>
    /\ buffer = <<>>
    /\ ready = <<>>
    /\ batches = <<>>

InitCtor ==
    /\ txt_file \in Manifests(LoadLines, MaxLoadLines)
    /\ args \in InitArgs(DataRoots, Modes, {1}, {2}, BOOLEAN)
    /\ InitState

NextCtor == InitRead \/ InitShuffle \/ InitDataset

SpecCtor == InitCtor /\ [][NextCtor]_vars

(***************************************************************************)
(* Inputs of the whole program: manifests over three files, one epoch.     *)
(***************************************************************************)
FileLines ==
    { ManifestLine(<<"a">>, 0), ManifestLine(<<"b">>, 1), ManifestLine(<<"c">>, -1) }

Init ==
    /\ args \in InitArgs({DataRoot}, Modes, {1, 2}, {2}, BOOLEAN)
    /\ txt_file \in SeqsUpTo(FileLines,
                             IF args.shuffle \/ args.mode = "training"
                             THEN MaxBusyLines ELSE MaxLines)
    /\ InitState

Next ==
    \/ InitRead
    \/ InitShuffle
    \/ InitDataset
    \/ MapStart
    \/ \E i \in 1..Len(calls) : ParseStep(i)
    \/ \E i \in 1..Len(calls) : CondStep(i)
    \/ \E i \in 1..Len(calls) : MapDeliver(i)
    \/ ShuffleEmit
    \/ BatchEmit

Spec == Init /\ [][Next]_vars

(***************************************************************************)
(* The parsing function on its own: two calls on the same (filename,       *)
(* label), each with the draws its random ops will return.  The state is   *)
(* the one the constructor and two MapStart steps leave for a manifest of  *)
(* twice the same line.                                                    *)
(***************************************************************************)
FileNames == {<<"a">>, <<"b">>, <<"c">>}

CallLabels == {-1, 0, 1, 2}

DrawsFor(mode) == IF mode = "training" THEN DrawSeqs ELSE {<<>>}

InitTransform ==
    \E p \in FileNames, l \in CallLabels :
        /\ args \in InitArgs({DataRoot}, ValidModes, {2}, {1, 2}, {FALSE})
        /\ txt_file = <<ManifestLine(p, l), ManifestLine(p, l)>>
        /\ pc = "built"
        /\ exc = NoError
        /\ img_paths = <<OsPathJoin(DataRoot, p), OsPathJoin(DataRoot, p)>>
        /\ labels = <<l, l>>
        /\ data_size = 2
        /\ shuf = NoShuffle
        /\ data = [built |-> TRUE, map |-> MapFunction(args.mode), shuffle |-> FALSE,
                   buffer_size |-> args.buffer_size, batch_size |-> args.batch_size]
        /\ \E d1, d2 \in DrawsFor(args.mode) :
              calls = <<[NewCall(img_paths[1], labels[1]) EXCEPT !.draws = d1],
                        [NewCall(img_paths[2], labels[2]) EXCEPT !.draws = d2]>>
        /\ buffer = <<>>
        /\ ready = <<>>
        /\ batches = <<>>

NextTransform ==
    \/ \E i \in 1..Len(calls) : ParseStep(i)
    \/ \E i \in 1..Len(calls) : CondStepDrawn(i)

SpecTransform == InitTransform /\ [][NextTransform]_vars

(***************************************************************************)
(* Properties of the constructor.                                          *)
(***************************************************************************)
\* the two lists as _read_txt_file left them (the shuffle keeps them in its
\* locals path and labels)
LoadedPaths == IF shuf.ran THEN shuf.path ELSE img_paths

LoadedLabels == IF shuf.ran THEN shuf.labels ELSE labels

LabelRange == -12..12

\* line i of the manifest is "<p> <l>", with or without its final newline
WrittenOn(i, p, l) ==
    \/ txt_file[i] = p \o <<" ">> \o Decimal(l) \o <<"\n">>
    \/ txt_file[i] = p \o <<" ">> \o Decimal(l)

AllWellFormed ==
    \A i \in 1..Len(txt_file) : \E p \in RelPaths, l \in LabelRange : WrittenOn(i, p, l)

PairCount(paths, labs, p, l) ==
    Cardinality({k \in 1..Len(paths) : paths[k] = p /\ labs[k] = l})

\* C1: after _shuffle_lists the two lists are the loaded lists reordered by
\* one bijection p on [0, N): position k holds (path[p[k]], label[p[k]]), the
\* lengths stay N and the multiset of (path, label) pairs is unchanged.
C1_ShuffleKeepsPairs ==
    shuf.ran =>
        LET N == Len(shuf.path)
            p == shuf.permutation
        IN /\ Len(shuf.labels) = N /\ data_size = N
           /\ Len(img_paths) = N /\ Len(labels) = N
           /\ DOMAIN p = 1..N
           /\ \A k \in 1..N : p[k] \in 0..(N - 1)
           /\ \A j \in 0..(N - 1) : \E k \in 1..N : p[k] = j
           /\ \A k \in 1..N : /\ img_paths[k] = shuf.path[p[k] + 1]
                              /\ labels[k] = shuf.labels[p[k] + 1]
           /\ \A k \in 1..N :
                 PairCount(img_paths, labels, img_paths[k], labels[k])
                   = PairCount(shuf.path, shuf.labels, img_paths[k], labels[k])

C1_Witness ==
    /\ shuf.ran
    /\ data_size = 2
    /\ shuf.permutation = <<1, 0>>
    /\ shuf.path[1] # shuf.path[2]
    /\ shuf.labels[1] # shuf.labels[2]

\* C2: a manifest of N well-formed lines loads into N aligned pairs in line
\* order: path i is dataroot joined with the path written on line i, label i
\* is the integer written on line i, and both lists have length N = data_size.
C2_LoadAligned ==
    (pc # "read" /\ AllWellFormed) =>
        LET N == Len(txt_file)
        IN /\ exc \notin {IndexError, IntValueError}
           /\ data_size = N
           /\ Len(LoadedPaths) = N
           /\ Len(LoadedLabels) = N
           /\ \A i \in 1..N : \A p \in RelPaths, l \in LabelRange :
                 WrittenOn(i, p, l) =>
                    /\ LoadedPaths[i] = OsPathJoin(args.dataroot, p)
                    /\ LoadedLabels[i] = l

C2_Witness ==
    /\ pc = "dataset"
    /\ ~shuf.ran
    /\ AllWellFormed
    /\ Len(txt_file) = 2
    /\ labels = <<12, -3>>
    /\ img_paths[1] # img_paths[2]

C6_LoadRejectsMalformed ==
    (pc \notin {"read", "raised"}) =>
        \A i \in 1..Len(txt_file) :
            LET items == Split(txt_file[i], " ")
            IN /\ Len(items) = 2
               /\ PyInt(items[Len(items)]).ok
               /\ LoadedLabels[i] = PyInt(items[Len(items)]).val

(***************************************************************************)
(* Properties of the parsing function.                                     *)
(***************************************************************************)
Returning == {i \in 1..Len(calls) : calls[i].pc = "ret"}

\* the draws of a call say: outer gate fired, flip's gate fired, flip mirrored
AllGatesFire(d) == Len(d) = 3 /\ d[1] < 50 /\ d[2] < 25 /\ d[3] < 50

\* the image mirrored left to right, column c taking column width + 1 - c
Mirrored(img) ==
    [shape |-> img.shape,
     px |-> [rc \in DOMAIN img.px |-> img.px[<<rc[1], img.shape[2] + 1 - rc[2]>>]]]

\* C3: the returned image differs from the unaugmented one only in training
\* mode when the 0.5 gate, the 0.25 gate and flip's own draw all fire; in
\* every other case of training it equals the unaugmented image, and in
\* inference no draw is made and two calls on one input return the same.
C3_AugmentOnlyWhenAllGatesFire ==
    \A i \in Returning :
        LET c == calls[i]
        IN /\ c.ret_img # c.img_bgr => data.map = "train" /\ AllGatesFire(c.draws)
           /\ (data.map = "train" /\ AllGatesFire(c.draws)) => c.ret_img = Mirrored(c.img_bgr)
           /\ data.map = "inference" =>
                 /\ c.draws = <<>>
                 /\ c.ret_img = c.img_bgr
                 /\ \A j \in Returning :
                       (calls[j].filename = c.filename /\ calls[j].label = c.label)
                          => /\ calls[j].ret_img = c.ret_img
                             /\ calls[j].one_hot = c.one_hot

C3_Witness ==
    /\ data.map = "train"
    /\ Returning = {1, 2}
    /\ calls[1].draws = <<25, 0, 25>>
    /\ calls[1].ret_img # calls[1].img_bgr
    /\ calls[2].draws = <<25, 25>>
    /\ calls[2].ret_img = calls[2].img_bgr

\* C4 (as claimed): for a label outside [0, num_classes) the one-hot step
\* fails and the call returns no (tensor, one_hot) pair.
C4_OutOfRangeLabelFails ==
    \A i \in 1..Len(calls) :
        (calls[i].label < 0 \/ calls[i].label >= args.num_classes)
           => calls[i].pc # "ret"

\* C9: at every pixel (r, g, b) of the resized image the unaugmented output
\* is (b - 103.939, g - 116.779, r - 123.68), and the resized image and the
\* output have shape 227 x 227 x 3 whatever the size of the file's raster.
C9_CentredThenReversed ==
    \A i \in 1..Len(calls) :
        calls[i].pc \in {"cond", "ret"} =>
            LET c == calls[i]
            IN /\ c.img_resized.shape = <<227, 227, 3>>
               /\ c.img_bgr.shape = <<227, 227, 3>>
               /\ DOMAIN c.img_bgr.px = DOMAIN c.img_resized.px
               /\ \A rc \in DOMAIN c.img_resized.px :
                     LET rgb == c.img_resized.px[rc]
                     IN c.img_bgr.px[rc] =
                          <<rgb[3] - 103939, rgb[2] - 116779, rgb[1] - 123680>>
               /\ (c.pc = "ret" /\ data.map = "inference") => c.ret_img = c.img_bgr
               /\ c.pc = "ret" => c.ret_img.shape = <<227, 227, 3>>

C9_Witness ==
    /\ data.map = "inference"
    /\ Returning = {1, 2}
    /\ calls[1].img_decoded.shape = <<1, 2, 3>>
    /\ calls[1].img_resized.px[<<1, 1>>] = <<255000, 0, 10000>>
    /\ calls[1].ret_img.px[<<1, 1>>] = <<10000 - 103939, 0 - 116779, 255000 - 123680>>

\* the one-hot vector of label l over n classes, as inference returns it
InferenceOneHot(l, n) == [j \in 1..n |-> IF j - 1 = l THEN 1 ELSE 0]

\* C10: in training mode the one-hot vector returned is the one inference
\* returns for the same input, whichever draws fire, and the conditional
\* leaves the vector of its call as it was.
C10_LabelIndependentOfDraws ==
    /\ [](\A i \in Returning :
            calls[i].one_hot = InferenceOneHot(calls[i].label, args.num_classes))
    /\ [][\A i \in 1..Len(calls) :
            (calls[i].pc = "cond" /\ calls'[i].pc = "ret")
               => /\ calls'[i].one_hot = calls[i].one_hot
                  /\ calls'[i].label = calls[i].label]_vars

C10_Witness ==
    /\ data.map = "train"
    /\ Returning = {1, 2}
    /\ calls[1].label = 1
    /\ args.num_classes = 2
    /\ calls[1].one_hot = <<0, 1>>
    /\ calls[1].ret_img # calls[1].img_bgr
    /\ calls[2].ret_img = calls[2].img_bgr
    /\ calls[2].one_hot = <<0, 1>>

(***************************************************************************)
(* Properties of the pipeline.                                             *)
(***************************************************************************)
RECURSIVE Flatten(_)
Flatten(bs) == IF bs = <<>> THEN <<>> ELSE Head(bs) \o Flatten(Tail(bs))

\* the unaugmented image of every file: decoded, resized to 227 x 227,
\* mean-centred, channels reversed
UnaugmentedFile ==
    [f \in DOMAIN Files |->
        ReverseChannels(Subtract(
            ResizeImages(DecodePng(ReadFile(f), 3), <<227, 227>>), IMAGENET_MEAN))]

\* the unaugmented image of the file written as p on a manifest line
LineImage(p) == UnaugmentedFile[OsPathJoin(args.dataroot, p)]

EpochDone == pc = "built" /\ Cardinality(Delivered) = data_size /\ ready = <<>> /\ buffer = <<>>

\* C7: with shuffle=false and mode=inference the epoch emits the entries of
\* the manifest once each, in manifest order, in consecutive batches of
\* batch_size samples, the last one holding the N mod batch_size left over
\* when that is not zero; the one-hot vector of a sample has its single 1 at
\* the label written on its line (a label that is a class index).
C7_BatchesInManifestOrder ==
    (pc = "built" /\ ~args.shuffle /\ args.mode = "inference") =>
        LET N == Len(txt_file)
            size == args.batch_size
            out == Flatten(batches)
        IN /\ Len(out) + Len(ready) <= N
           /\ \A k \in 1..Len(out) : \A p \in FileNames, l \in LabelRange :
                 WrittenOn(k, p, l) =>
                    /\ out[k].img = LineImage(p)
                    /\ Len(out[k].one_hot) = args.num_classes
                    /\ l \in 0..(args.num_classes - 1) =>
                          \A j \in 1..args.num_classes :
                              out[k].one_hot[j] = IF j = l + 1 THEN 1 ELSE 0
           /\ \A b \in 1..Len(batches) :
                 \/ Len(batches[b]) = size
                 \/ /\ b = Len(batches)
                    /\ Len(out) = N
                    /\ N % size # 0
                    /\ Len(batches[b]) = N % size
           /\ EpochDone => Len(out) = N

C7_Witness ==
    /\ EpochDone
    /\ ~args.shuffle
    /\ args.mode = "inference"
    /\ args.batch_size = 2
    /\ txt_file = <<ManifestLine(<<"a">>, 0), ManifestLine(<<"b">>, 1), ManifestLine(<<"a">>, 0)>>
    /\ Len(batches) = 2
    /\ Len(batches[1]) = 2
    /\ Len(batches[2]) = 1
    /\ batches[1][1].one_hot = <<1, 0>>
    /\ batches[1][2].one_hot = <<0, 1>>

\* what a call on (filename, label) returns when it runs alone
AloneResults(filename, label) ==
    {[img |-> IF data.map = "train" THEN CondAugment(UnaugmentedFile[filename], d)
              ELSE UnaugmentedFile[filename],
      one_hot |-> OneHot(label, args.num_classes)] : d \in DrawSeqs}

\* C8: under every interleaving of the calls of the map, each call returns
\* what it returns when run alone, and while calls exist no step changes
\* img_paths, labels, data_size or num_classes, all set before the first call.
C8_CallsShareNoState ==
    /\ [](\A i \in Returning :
            Sample(calls[i]) \in AloneResults(calls[i].filename, calls[i].label))
    /\ [](calls # <<>> => pc = "built")
    /\ [][calls # <<>> =>
            /\ img_paths' = img_paths
            /\ labels' = labels
            /\ data_size' = data_size
            /\ args'.num_classes = args.num_classes]_vars

C8_Witness ==
    /\ data.map = "train"
    /\ Len(calls) = 2
    /\ calls[1].pc = "cond"
    /\ calls[2].pc = "ret"
    /\ calls[1].filename # calls[2].filename
    /\ calls[2].ret_img # calls[2].img_bgr

====
